---- MODULE Spec2Model ----
(***************************************************************************)
(* The ingestion pipeline of feeds: the link-keyed EntryCache, Feed        *)
(* construction and its concurrent download_entries workers, the FeedList  *)
(* and its file, the entry queue drained by the Controller, the edits and  *)
(* the shutdown of a session, and the relative dates of an Entry.          *)
(***************************************************************************)
EXTENDS Integers, Sequences, FiniteSets, TLC

\* ------------------------------------------------------------------ bounds
\* Number of add_feed calls the controller makes.
MaxAdd == 2
\* Number of download tasks the feeds added start in all.
MaxTasks == 3
\* Number of records in a feed-list file.
MaxRecords == 3
\* Number of edit_feed and remove_feed calls the user makes.
MaxEdit == 2
\* Days an Entry's timestamp lies back at most.
MaxDays == 91

\* ------------------------------------------------------------- the world
\* Feed URLs: "u1" and "u2" parse, "bad" is unreachable or malformed.
Urls == {"u1", "u2", "bad"}

LinkSeq == <<"l1", "l2">>

Links == {LinkSeq[k] : k \in 1..Len(LinkSeq)}

LinkNo(link) == CHOOSE k \in 1..Len(LinkSeq) : LinkSeq[k] = link

\* feedparser.parse(url).entries: the links of the raw entries, in order. An
\* unreachable or malformed feed parses to no entries.
parse(url) ==
    CASE url = "u1" -> <<"l1", "l2">>
      [] url = "u2" -> <<"l2">>
      [] OTHER -> <<>>

\* Source(first_link).brand.upper()
brand(first_link) == IF first_link = "l1" THEN "SITE1" ELSE "SITE2"

\* self._download_image(icon_url), the favicon of the first link's host
favicon(first_link) == <<"icon", first_link>>

\* self._download_image(article.top_image), the top image of the article
image(link) == <<"image", link>>

\* self._download_image(url) returning None: requests.get raised or the
\* status was not 200.
NoImage == <<>>

\* Display strings a feed-list record or an edit can carry ("" is falsy).
Displays == {"", "D1"}

\* A Feed reference that is no Feed of this run: None, or the pickled copy
\* an unpickled Entry points to.
StaleFeed == 0

\* Optional[Entry] None
NoEntry == <<>>

EmptyMap == <<>>

Range(s) == {s[k] : k \in DOMAIN s}

\* dict[key] = value
DictSet(d, key, value) ==
    [k \in DOMAIN d \cup {key} |-> IF k = key THEN value ELSE d[k]]

VARIABLES
    heap,           \* Entry objects: id -> fields (only parent is mutable)
    cache_entries,  \* EntryCache.entries: link -> Entry id
    cache_used,     \* EntryCache.used: link -> Entry id
    cache_file,     \* entries.pickle: [readable, data: link -> Entry fields]
    call,           \* the last EntryCache call and what it returned
    hits,           \* links a get of this run returned an Entry for
    feeds,          \* Feed objects constructed in this run, by identity
    feed_list,      \* FeedList._feeds: Feed identities in order
    tasks,          \* tasks[f][i]: download_entry of raw entry i of Feed f
    entry_queue,    \* Controller._entry_queue: pickled Entry copies
    items,          \* EntryList.items: feed url -> Entry copies shown
    nAdd,           \* add_feed calls made
    addRet,         \* the last add_feed call: its url and the Feed or None returned
    data_file,      \* feeds.json: [readable, records]
    loaded,         \* FeedList.load has run
    run,            \* where the Controller is: constructed, in exec_(), ...
    nEdit,          \* edit_feed and remove_feed calls made
    view,           \* what the last read of FeedList.entries returned
    date,           \* the last Entry._construct_date call: elapsed time, text
    calls,          \* calls[t]: the EntryCache call thread t is in
    drain           \* the update_entries call: where it is, what it handed over

cacheVars == <<heap, cache_entries, cache_used, cache_file, call, hits>>

feedVars == <<feeds, feed_list, tasks, entry_queue, items, nAdd, addRet>>

loadVars == <<data_file, loaded>>

ctlVars == <<run, nEdit, view, date, calls, drain>>

vars == <<heap, cache_entries, cache_used, cache_file, call, hits,
          feeds, feed_list, tasks, entry_queue, items, nAdd, addRet,
          data_file, loaded, run, nEdit, view, date, calls, drain>>

\* ------------------------------------------------------ relative dates
\* Seconds within the day the formatting is tried on: around the minute and
\* hour borders, and the ends of the range of timedelta.seconds.
SampleSeconds ==
    {0, 1, 59, 60, 61, 119, 120, 121, 3599, 3600, 3601, 7199, 7200, 7201,
     18000, 86399}

\* unit + "s"
with_s(unit) ==
    CASE unit = "month" -> "months"
      [] unit = "day" -> "days"
      [] unit = "hour" -> "hours"
      [] unit = "minute" -> "minutes"

\* A unit that takes its "s" whatever the value.
date_unit_always_s(value, unit) == with_s(unit)

\* if value > 1: unit = unit + "s"
date_unit(value, unit) == IF value > 1 THEN with_s(unit) ELSE unit

\* f"{value} {unit} ago"
date_text(value, unit) == <<value, date_unit(value, unit), "ago">>

\* Entry._construct_date for delta.days = days and delta.seconds = seconds.
construct_date(days, seconds) ==
    LET months == days \div 30
        hours == seconds \div 3600
        minutes == seconds \div 60
    IN  IF months > 0 THEN date_text(months, "month")
        ELSE IF days > 0 THEN date_text(days, "day")
        ELSE IF hours > 0 THEN date_text(hours, "hour")
        ELSE date_text(minutes, "minute")

\* The raw entry has no such attribute: reading it raises AttributeError.
NoStamp == <<>>

\* entry.published_parsed of raw entry i of the feed at url, as the time
\* <<days, seconds>> it lies back; the first entry of "u1" carries it.
published_parsed(url, i) ==
    IF url = "u1" /\ i = 1 THEN <<90, 7201>> ELSE NoStamp

\* entry.created_parsed: both entries of "u1" carry it, the entry of "u2"
\* carries neither timestamp.
created_parsed(url, i) ==
    IF url = "u1" THEN (IF i = 1 THEN <<0, 60>> ELSE <<0, 18000>>) ELSE NoStamp

\* A lookup that knows the published timestamp only.
entry_timestamp_published_only(published, created) == published

\* Entry.__init__: date = entry.published_parsed, on any exception
\* entry.created_parsed, on any exception none
entry_timestamp(published, created) ==
    IF published # NoStamp THEN published
    ELSE IF created # NoStamp THEN created
    ELSE NoStamp

\* Entry.__init__: self._date, "" (here <<>>) without a timestamp
entry_date(published, created) ==
    LET stamp == entry_timestamp(published, created) IN
    IF stamp = NoStamp THEN <<>> ELSE construct_date(stamp[1], stamp[2])

\* self._date of the Entry made from raw entry i of the feed at url
raw_date(url, i) == entry_date(published_parsed(url, i), created_parsed(url, i))

\* ------------------------------------------------------------------ Entry
\* Entry.__init__: the fields of a new Entry of Feed `parent`.
Entry(parent, link, top_image, icon, text) ==
    [link |-> link, title |-> <<"title", link>>, html |-> <<"html", link>>,
     top_image |-> top_image, icon |-> icon, date |-> text, parent |-> parent]

\* Identity of the Entry created by task i of Feed f.
EntryId(f, i) == <<f, i>>

\* Identity of the Entry unpickled from the cache file for `link`.
LoadedId(link) == <<StaleFeed, LinkNo(link)>>

\* ------------------------------------------------------------- EntryCache
\* pickle.dump(self.used): the Entry objects by value.
pickle_dump(used, h) == [l \in DOMAIN used |-> h[used[l]]]

\* pickle.load(cache_file): fresh Entry objects; each one's parent is a copy
\* of the Feed that was pickled with it, not a Feed of this run.
pickle_load_heap(data) ==
    [id \in {LoadedId(l) : l \in DOMAIN data} |->
        LET l == CHOOSE x \in DOMAIN data : LoadedId(x) = id
        IN  [data[l] EXCEPT !.parent = StaleFeed]]

pickle_load(data) == [l \in DOMAIN data |-> LoadedId(l)]

\* EntryCache.__init__: self.entries after the attempt to read the file.
init_entries(file) ==
    IF file.readable THEN pickle_load(file.data) ELSE EmptyMap

init_heap(file) ==
    IF file.readable THEN pickle_load_heap(file.data) ELSE EmptyMap

\* EntryCache.get: the value returned.
get_return(entries, link) ==
    IF link \in DOMAIN entries THEN entries[link] ELSE NoEntry

\* A get that forgets to record what it returned.
get_used_unmarked(entries, used, link) == used

\* EntryCache.get: self.used after the call.
get_used(entries, used, link) ==
    IF link \in DOMAIN entries THEN DictSet(used, link, entries[link]) ELSE used

\* A put that keeps the Entry already stored under the link.
put_entries_setdefault(entries, link, entry) ==
    IF link \in DOMAIN entries THEN entries ELSE DictSet(entries, link, entry)

\* EntryCache.put: self.entries after the call.
put_entries(entries, link, entry) == DictSet(entries, link, entry)

\* A put that also records the Entry as used.
put_used_marked(used, link, entry) == DictSet(used, link, entry)

\* EntryCache.put: self.used after the call.
put_used(used, link, entry) == used

\* A save that dumps everything cached instead of what was used.
save_file_entries(entries, used, h) ==
    [readable |-> TRUE, data |-> pickle_dump(entries, h)]

\* EntryCache.save: the file after a save that wrote it.
save_file(entries, used, h) == [readable |-> TRUE, data |-> pickle_dump(used, h)]

\* The file after a save that failed: mkdir or open failed (file as it was),
\* or the dump failed after open(..., "wb+") truncated it.
save_failed_files(file) == {file, [readable |-> FALSE, data |-> EmptyMap]}

\* ---------------------------------------------- the cache on its own
\* Entry objects a caller of the cache holds: those the workers of a Feed of
\* "u1" and of a Feed of "u2" construct (two distinct Entries for "l2").
TestEntries ==
    (EntryId(1, 1) :> Entry(StaleFeed, "l1", image("l1"), favicon("l1"), raw_date("u1", 1))) @@
    (EntryId(1, 2) :> Entry(StaleFeed, "l2", image("l2"), favicon("l1"), raw_date("u1", 2))) @@
    (EntryId(2, 1) :> Entry(StaleFeed, "l2", image("l2"), favicon("l2"), raw_date("u2", 1)))

\* Each key of the cache is the link of the Entry stored under it.
Puttable(h, link) == {id \in DOMAIN h : h[id].link = link}

\* Cache files a run can start from: none, or a snapshot of an earlier run.
InitialFiles ==
    {[readable |-> FALSE, data |-> EmptyMap]} \cup
    {[readable |-> TRUE, data |-> [l \in S |->
                                Entry(1, l, image(l), favicon("l1"), raw_date("u1", LinkNo(l)))]] :
        S \in SUBSET Links}

NoCall == [op |-> "none", link |-> "", entry |-> NoEntry, ret |-> NoEntry, ok |-> TRUE]

\* The record of a call, remembering the call before it.
Called(op, link, entry, ret, ok) ==
    [op |-> op, link |-> link, entry |-> entry, ret |-> ret, ok |-> ok,
     prev |-> [op |-> call.op, link |-> call.link, entry |-> call.entry]]

IdleFeeds ==
    /\ feeds = <<>>
    /\ feed_list = <<>>
    /\ tasks = <<>>
    /\ entry_queue = <<>>
    /\ items = EmptyMap
    /\ nAdd = 0
    /\ addRet = [url |-> "", feed |-> StaleFeed]

\* update_entries is not running and has handed nothing over.
NoDrain == [pc |-> "idle", got |-> <<>>]

\* No date was formatted yet.
NoDate == [days |-> 0, seconds |-> 0, text |-> <<>>]

\* Nothing edited, read or formatted yet, and no call on the cache in flight.
IdleCtl ==
    /\ nEdit = 0
    /\ view = <<>>
    /\ date = NoDate
    /\ calls = <<>>
    /\ drain = NoDrain

\* No Controller: no feeds.json is read.
IdleLoad ==
    /\ data_file = [readable |-> FALSE, records |-> <<>>]
    /\ loaded = FALSE
    /\ run = "none"
    /\ IdleCtl

\* EntryCache() in a process that holds the TestEntries.
InitCache ==
    /\ cache_file \in InitialFiles
    /\ heap = TestEntries @@ init_heap(cache_file)
    /\ cache_entries = init_entries(cache_file)
    /\ cache_used = EmptyMap
    /\ hits = EmptyMap
    /\ call = [NoCall EXCEPT !.op = "init"] @@ [prev |-> [op |-> "none", link |-> "", entry |-> NoEntry]]
    /\ IdleFeeds
    /\ IdleLoad

\* cache.get(link)
Get(link) ==
    /\ call' = Called("get", link, NoEntry, get_return(cache_entries, link), TRUE)
    /\ cache_used' = get_used(cache_entries, cache_used, link)
    /\ hits' = IF get_return(cache_entries, link) # NoEntry
               THEN DictSet(hits, link, get_return(cache_entries, link))
               ELSE hits
    /\ UNCHANGED <<heap, cache_entries, cache_file>>
    /\ UNCHANGED <<feedVars, loadVars, ctlVars>>

\* cache.put(link, entry)
Put(link, entry) ==
    /\ call' = Called("put", link, entry, NoEntry, TRUE)
    /\ cache_entries' = put_entries(cache_entries, link, entry)
    /\ cache_used' = put_used(cache_used, link, entry)
    /\ UNCHANGED <<heap, cache_file, hits>>
    /\ UNCHANGED <<feedVars, loadVars, ctlVars>>

\* cache.save(), the file written
SaveOk ==
    /\ call' = Called("save", "", NoEntry, NoEntry, TRUE)
    /\ cache_file' = save_file(cache_entries, cache_used, heap)
    /\ UNCHANGED <<heap, cache_entries, cache_used, hits>>
    /\ UNCHANGED <<feedVars, loadVars, ctlVars>>

\* A failed save that leaves used empty.
SaveFail_resets ==
    /\ call' = Called("save", "", NoEntry, NoEntry, FALSE)
    /\ cache_file' \in save_failed_files(cache_file)
    /\ cache_used' = EmptyMap
    /\ UNCHANGED <<heap, cache_entries, hits>>
    /\ UNCHANGED <<feedVars, loadVars, ctlVars>>

\* cache.save(), an exception caught and logged
SaveFail ==
    /\ call' = Called("save", "", NoEntry, NoEntry, FALSE)
    /\ cache_file' \in save_failed_files(cache_file)
    /\ UNCHANGED <<heap, cache_entries, cache_used, hits>>
    /\ UNCHANGED <<feedVars, loadVars, ctlVars>>

\* The process ends and a new one constructs EntryCache() from the file.
NewCache ==
    /\ call' = Called("init", "", NoEntry, NoEntry, cache_file.readable)
    /\ heap' = TestEntries @@ init_heap(cache_file)
    /\ cache_entries' = init_entries(cache_file)
    /\ cache_used' = EmptyMap
    /\ hits' = EmptyMap
    /\ UNCHANGED cache_file
    /\ UNCHANGED <<feedVars, loadVars, ctlVars>>

NextCache ==
    \/ \E link \in Links : Get(link)
    \/ \E link \in Links : \E entry \in Puttable(heap, link) : Put(link, entry)
    \/ SaveOk
    \/ SaveFail
    \/ NewCache

SpecCache == InitCache /\ [][NextCache]_vars

\* ------------------------------------------------------------------- Feed
\* Feed.__init__ raises FeedParseError: self._feed.entries[0] does not exist.
FeedParseError(url) == Len(parse(url)) = 0

\* Feed.__init__: the Feed constructed from a url that parses.
Feed(url, display, enabled) ==
    [url |-> url,
     display |-> IF display # "" THEN display ELSE brand(parse(url)[1]),
     enabled |-> enabled,
     icon |-> favicon(parse(url)[1]),
     raw |-> parse(url),
     entries |-> <<>>]

\* A pool that is never given the last raw entry.
download_entries_all_but_last(url) ==
    [i \in 1..(Len(parse(url)) - 1) |-> [pc |-> "get", feed_entry |-> NoEntry]]

\* executor.map(download_entry, self._feed.entries): one task per raw entry.
download_entries(url) ==
    [i \in 1..Len(parse(url)) |-> [pc |-> "get", feed_entry |-> NoEntry]]

\* An insert at the front of the list.
entries_prepend(entries, feed_entry) == <<feed_entry>> \o entries

\* self._entries.append(feed_entry)
entries_append(entries, feed_entry) == Append(entries, feed_entry)

\* queue.put(feed_entry) on the manager's queue: the Entry is pickled as the
\* call is made, with a copy of its parent Feed. id and by are not part of the
\* pickle: they name the Entry object copied and the Feed whose worker pushed.
queue_item(h, fs, feed_entry, f) ==
    [id |-> feed_entry, by |-> f, entry |-> h[feed_entry],
     parent_url |-> fs[h[feed_entry].parent].url,
     parent_enabled |-> fs[h[feed_entry].parent].enabled]

\* EntryList.add_entry: self.items[entry.parent_feed.url] gets the new item,
\* shown when the pickled parent is enabled.
add_entry(its, item) ==
    LET old == IF item.parent_url \in DOMAIN its THEN its[item.parent_url] ELSE <<>>
    IN  DictSet(its, item.parent_url,
                Append(old, [id |-> item.id, by |-> item.by,
                             shown |-> item.parent_enabled]))

IdleCacheCalls ==
    /\ call = [NoCall EXCEPT !.op = "init"] @@ [prev |-> [op |-> "none", link |-> "", entry |-> NoEntry]]
    /\ hits = EmptyMap

\* Controller.__init__ of a first run followed by run(), which is in exec_():
\* no feeds.json yet (load logged the error), and the cache file missing or a
\* snapshot of an earlier run that holds "l2".
Init ==
    /\ cache_file \in {[readable |-> FALSE, data |-> EmptyMap],
                       [readable |-> TRUE,
                        data |-> ("l2" :> Entry(1, "l2", image("l2"), favicon("l2"), raw_date("u1", 2)))]}
    /\ heap = init_heap(cache_file)
    /\ cache_entries = init_entries(cache_file)
    /\ cache_used = EmptyMap
    /\ IdleCacheCalls
    /\ IdleFeeds
    /\ data_file = [readable |-> FALSE, records |-> <<>>]
    /\ loaded = TRUE
    /\ run = "exec"
    /\ IdleCtl

\* FeedList.append(feed)
feed_list_append(fl, feed) == Append(fl, feed)

\* An add_feed that appends whatever the constructor did.
add_feed_list_always(fl, fs, url) == feed_list_append(fl, Len(fs) + 1)

\* Controller.add_feed: the FeedList after the call.
add_feed_list(fl, fs, url) ==
    IF FeedParseError(url) THEN fl ELSE feed_list_append(fl, Len(fs) + 1)

\* Controller.add_feed: the value returned, the new Feed or None.
add_feed_return(fs, url) ==
    IF FeedParseError(url) THEN StaleFeed ELSE Len(fs) + 1

\* Feed(url, queue, cache): the Feed objects after the constructor ran.
feed_init_feeds(fs, url, display, enabled) ==
    IF FeedParseError(url) THEN fs ELSE Append(fs, Feed(url, display, enabled))

\* Feed(url, queue, cache): the download tasks after the constructor ran;
\* the thread is started only past the try block.
feed_init_tasks(ts, url) ==
    IF FeedParseError(url) THEN ts ELSE Append(ts, download_entries(url))

\* Download tasks started so far.
RECURSIVE TaskCountOf(_)
TaskCountOf(ts) ==
    IF ts = <<>> THEN 0 ELSE Len(Head(ts)) + TaskCountOf(Tail(ts))

TaskCount == TaskCountOf(tasks)

\* Controller.add_feed(url)
AddFeed(url) ==
    /\ run = "exec"
    /\ nAdd < MaxAdd
    /\ TaskCount + Len(parse(url)) <= MaxTasks
    /\ nAdd' = nAdd + 1
    /\ feeds' = feed_init_feeds(feeds, url, "", TRUE)
    /\ tasks' = feed_init_tasks(tasks, url)
    /\ feed_list' = add_feed_list(feed_list, feeds, url)
    /\ addRet' = [url |-> url, feed |-> add_feed_return(feeds, url)]
    /\ UNCHANGED <<entry_queue, items>>
    /\ UNCHANGED <<cacheVars, loadVars, ctlVars>>

TaskLink(f, i) == feeds[f].raw[i]

SetTask(f, i, pc, feed_entry) ==
    tasks' = [tasks EXCEPT ![f][i] = [pc |-> pc, feed_entry |-> feed_entry]]

\* download_entry: cached = cache.get(entry_data.link)
TaskGet(f, i) ==
    /\ tasks[f][i].pc = "get"
    /\ cache_used' = get_used(cache_entries, cache_used, TaskLink(f, i))
    /\ LET cached == get_return(cache_entries, TaskLink(f, i)) IN
         IF cached # NoEntry
         THEN SetTask(f, i, "reparent", cached)
         ELSE SetTask(f, i, "fetch", NoEntry)
    /\ UNCHANGED <<heap, cache_entries, cache_file, call, hits>>
    /\ UNCHANGED <<feeds, feed_list, entry_queue, items, nAdd, addRet>>
    /\ UNCHANGED <<loadVars, ctlVars>>

\* download_entry: cached._parent_feed = self; feed_entry = cached
TaskReparent(f, i) ==
    /\ tasks[f][i].pc = "reparent"
    /\ heap' = [heap EXCEPT ![tasks[f][i].feed_entry].parent = f]
    /\ SetTask(f, i, "append", tasks[f][i].feed_entry)
    /\ UNCHANGED <<cache_entries, cache_used, cache_file, call, hits>>
    /\ UNCHANGED <<feeds, feed_list, entry_queue, items, nAdd, addRet>>
    /\ UNCHANGED <<loadVars, ctlVars>>

\* download_entry: article.download(); article.parse(); the top image is
\* downloaded; feed_entry = Entry(self, article, entry_data, ...)
TaskFetchOk(f, i) ==
    /\ tasks[f][i].pc = "fetch"
    /\ heap' = heap @@ (EntryId(f, i) :> Entry(f, TaskLink(f, i), image(TaskLink(f, i)),
                                             feeds[f].icon, raw_date(feeds[f].url, i)))
    /\ SetTask(f, i, "put", EntryId(f, i))
    /\ UNCHANGED <<cache_entries, cache_used, cache_file, call, hits>>
    /\ UNCHANGED <<feeds, feed_list, entry_queue, items, nAdd, addRet>>
    /\ UNCHANGED <<loadVars, ctlVars>>

\* A failure that takes the pool down: no other task of the Feed goes on.
TaskFetchFail_abort(f, i) ==
    /\ tasks[f][i].pc = "fetch"
    /\ tasks' = [tasks EXCEPT ![f] =
                    [j \in DOMAIN @ |->
                        IF @[j].pc = "done" THEN @[j]
                        ELSE [pc |-> IF j = i THEN "failed" ELSE "cancelled",
                              feed_entry |-> @[j].feed_entry]]]
    /\ UNCHANGED cacheVars
    /\ UNCHANGED <<feeds, feed_list, entry_queue, items, nAdd, addRet>>
    /\ UNCHANGED <<loadVars, ctlVars>>

\* download_entry: article.download() or article.parse() raises; the
\* exception stays in the task's future, which nobody reads.
TaskFetchFail(f, i) ==
    /\ tasks[f][i].pc = "fetch"
    /\ SetTask(f, i, "failed", NoEntry)
    /\ UNCHANGED cacheVars
    /\ UNCHANGED <<feeds, feed_list, entry_queue, items, nAdd, addRet>>
    /\ UNCHANGED <<loadVars, ctlVars>>

\* download_entry: cache.put(entry_data.link, feed_entry)
TaskPut(f, i) ==
    /\ tasks[f][i].pc = "put"
    /\ cache_entries' = put_entries(cache_entries, TaskLink(f, i), tasks[f][i].feed_entry)
    /\ cache_used' = put_used(cache_used, TaskLink(f, i), tasks[f][i].feed_entry)
    /\ SetTask(f, i, "reget", tasks[f][i].feed_entry)
    /\ UNCHANGED <<heap, cache_file, call, hits>>
    /\ UNCHANGED <<feeds, feed_list, entry_queue, items, nAdd, addRet>>
    /\ UNCHANGED <<loadVars, ctlVars>>

\* A task that goes from its put straight to the append.
TaskReget_skipped(f, i) ==
    /\ tasks[f][i].pc = "reget"
    /\ SetTask(f, i, "append", tasks[f][i].feed_entry)
    /\ UNCHANGED cacheVars
    /\ UNCHANGED <<feeds, feed_list, entry_queue, items, nAdd, addRet>>
    /\ UNCHANGED <<loadVars, ctlVars>>

\* download_entry: cache.get(entry_data.link), "force into used list"
TaskReget(f, i) ==
    /\ tasks[f][i].pc = "reget"
    /\ cache_used' = get_used(cache_entries, cache_used, TaskLink(f, i))
    /\ SetTask(f, i, "append", tasks[f][i].feed_entry)
    /\ UNCHANGED <<heap, cache_entries, cache_file, call, hits>>
    /\ UNCHANGED <<feeds, feed_list, entry_queue, items, nAdd, addRet>>
    /\ UNCHANGED <<loadVars, ctlVars>>

\* A task that goes on to its push without the append.
TaskAppend_skipped(f, i) ==
    /\ tasks[f][i].pc = "append"
    /\ SetTask(f, i, "push", tasks[f][i].feed_entry)
    /\ UNCHANGED cacheVars
    /\ UNCHANGED <<feeds, feed_list, entry_queue, items, nAdd, addRet>>
    /\ UNCHANGED <<loadVars, ctlVars>>

\* download_entry: self._entries.append(feed_entry)
TaskAppend(f, i) ==
    /\ tasks[f][i].pc = "append"
    /\ feeds' = [feeds EXCEPT ![f].entries = entries_append(@, tasks[f][i].feed_entry)]
    /\ SetTask(f, i, "push", tasks[f][i].feed_entry)
    /\ UNCHANGED cacheVars
    /\ UNCHANGED <<feed_list, entry_queue, items, nAdd, addRet>>
    /\ UNCHANGED <<loadVars, ctlVars>>

\* download_entry: queue.put(feed_entry)
TaskPush(f, i) ==
    /\ tasks[f][i].pc = "push"
    /\ entry_queue' = Append(entry_queue, queue_item(heap, feeds, tasks[f][i].feed_entry, f))
    /\ SetTask(f, i, "done", tasks[f][i].feed_entry)
    /\ UNCHANGED cacheVars
    /\ UNCHANGED <<feeds, feed_list, items, nAdd, addRet>>
    /\ UNCHANGED <<loadVars, ctlVars>>

\* One step of one download_entry task of one Feed's pool.
Worker ==
    \E f \in DOMAIN tasks : \E i \in DOMAIN tasks[f] :
        \/ TaskGet(f, i)
        \/ TaskReparent(f, i)
        \/ TaskFetchOk(f, i)
        \/ TaskFetchFail(f, i)
        \/ TaskPut(f, i)
        \/ TaskReget(f, i)
        \/ TaskAppend(f, i)
        \/ TaskPush(f, i)

\* A drain that takes two Entries off the queue and hands over the first.
UpdateEntries_lossy ==
    /\ run = "exec"
    /\ Len(entry_queue) # 0
    /\ items' = add_entry(items, Head(entry_queue))
    /\ entry_queue' = IF Len(entry_queue) > 1 THEN Tail(Tail(entry_queue)) ELSE <<>>
    /\ UNCHANGED cacheVars
    /\ UNCHANGED <<feeds, feed_list, tasks, nAdd, addRet>>
    /\ UNCHANGED <<loadVars, ctlVars>>

\* Controller.update_entries, which the timer calls while exec_() runs, one
\* turn of its loop: the queue is not empty, one Entry is taken and handed to
\* the Gui.
UpdateEntries ==
    /\ run = "exec"
    /\ Len(entry_queue) # 0
    /\ items' = add_entry(items, Head(entry_queue))
    /\ entry_queue' = Tail(entry_queue)
    /\ UNCHANGED cacheVars
    /\ UNCHANGED <<feeds, feed_list, tasks, nAdd, addRet>>
    /\ UNCHANGED <<loadVars, ctlVars>>

Next ==
    \/ \E url \in Urls : AddFeed(url)
    \/ Worker
    \/ UpdateEntries

Spec == Init /\ [][Next]_vars

\* The pool runs every task it was given and the threads are scheduled.
FairSpec == Spec /\ WF_vars(Worker)

\* --------------------------------------------------- the feed-list file
\* Urls as a feeds.json can hold them: "u2 " carries trailing white space.
FileUrls == {"u1", "u2 ", "bad"}

\* data["url"].rstrip()
rstrip(url) == IF url = "u2 " THEN "u2" ELSE url

FileRecords == [url : FileUrls, display : Displays, enabled : BOOLEAN]

SeqsUpTo(S, n) == UNION {[1..k -> S] : k \in 0..n}

\* FeedList.load, the for loop over the records from record k on, st being
\* the Feed objects, the FeedList and the download tasks so far: each Feed
\* constructed is appended; a FeedParseError leaves the loop, whose try
\* statement encloses it.
RECURSIVE load_loop(_, _, _)
load_loop(records, k, st) ==
    IF k > Len(records) THEN st
    ELSE IF FeedParseError(rstrip(records[k].url)) THEN st
    ELSE load_loop(records, k + 1,
            [fs |-> feed_init_feeds(st.fs, rstrip(records[k].url),
                                    records[k].display, records[k].enabled),
             fl |-> feed_list_append(st.fl, Len(st.fs) + 1),
             ts |-> feed_init_tasks(st.ts, rstrip(records[k].url))])

\* FeedList.load: nothing is constructed when the file cannot be opened or
\* is no JSON.
load_feeds(file, st) ==
    IF file.readable THEN load_loop(file.records, 1, st) ELSE st

\* Controller.__init__ up to the FeedList.load call: an empty FeedList, the
\* cache of a first run, and whatever feeds.json holds.
InitLoad ==
    /\ cache_file = [readable |-> FALSE, data |-> EmptyMap]
    /\ heap = init_heap(cache_file)
    /\ cache_entries = init_entries(cache_file)
    /\ cache_used = EmptyMap
    /\ IdleCacheCalls
    /\ IdleFeeds
    /\ data_file \in
          {[readable |-> FALSE, records |-> <<>>]} \cup
          {[readable |-> TRUE, records |-> r] : r \in SeqsUpTo(FileRecords, MaxRecords)}
    /\ loaded = FALSE
    /\ run = "new"
    /\ IdleCtl

\* self._feed_list.load(self.data_path, self._entry_queue, self._cache)
Load ==
    /\ ~loaded
    /\ loaded' = TRUE
    /\ LET st == load_feeds(data_file, [fs |-> feeds, fl |-> feed_list, ts |-> tasks])
       IN  /\ feeds' = st.fs
           /\ feed_list' = st.fl
           /\ tasks' = st.ts
    /\ UNCHANGED <<entry_queue, items, nAdd, addRet, data_file>>
    /\ UNCHANGED <<cacheVars, ctlVars>>

NextLoad == Load

SpecLoad == InitLoad /\ [][NextLoad]_vars

\* --------------------------------------------------- a Controller session
\* json.dump(feed_json): one record per Feed of the FeedList, in list order.
save_records(fl, fs) ==
    [k \in DOMAIN fl |-> [url |-> fs[fl[k]].url,
                          display |-> fs[fl[k]].display,
                          enabled |-> fs[fl[k]].enabled]]

\* FeedList.save: the file after a save that wrote it.
save_list_file(fl, fs) == [readable |-> TRUE, records |-> save_records(fl, fs)]

\* The file after a save that raised: mkdir or open failed (file as it was),
\* or the dump failed after open(path, "w+") truncated it.
save_list_failed_files(file) == {file, [readable |-> FALSE, records |-> <<>>]}

\* feeds.json as an earlier run saved it: Feeds of "u1" and "u2", named by
\* their brand or by the user, the second one disabled.
StartFiles ==
    {[readable |-> TRUE,
      records |-> <<[url |-> "u1", display |-> "SITE1", enabled |-> TRUE],
                    [url |-> "u2", display |-> "D1", enabled |-> FALSE]>>],
     [readable |-> TRUE,
      records |-> <<[url |-> "u2", display |-> "SITE2", enabled |-> TRUE]>>]}

\* Cache files a session starts from: none, or a snapshot holding "l2".
StartCaches ==
    {[readable |-> FALSE, data |-> EmptyMap],
     [readable |-> TRUE, data |-> ("l2" :> Entry(1, "l2", image("l2"), favicon("l2"), raw_date("u1", 2)))]}

\* Controller(): the cache is read, the FeedList loaded (each Feed starting
\* its download), the Gui built; run() is not called yet.
InitRun ==
    /\ cache_file \in StartCaches
    /\ heap = init_heap(cache_file)
    /\ cache_entries = init_entries(cache_file)
    /\ cache_used = EmptyMap
    /\ IdleCacheCalls
    /\ data_file \in StartFiles
    /\ LET st == load_feeds(data_file, [fs |-> <<>>, fl |-> <<>>, ts |-> <<>>])
       IN  /\ feeds = st.fs
           /\ feed_list = st.fl
           /\ tasks = st.ts
    /\ entry_queue = <<>>
    /\ items = EmptyMap
    /\ nAdd = 0
    /\ addRet = [url |-> "", feed |-> StaleFeed]
    /\ loaded = TRUE
    /\ run = "init"
    /\ IdleCtl

\* controller.run() up to self.exec_(): the timer is started.
StartRun ==
    /\ run = "init"
    /\ run' = "exec"
    /\ UNCHANGED <<cacheVars, feedVars, loadVars>>
    /\ UNCHANGED <<nEdit, view, date, calls, drain>>

\* EntryList.reload_feed under Gui.reload_feed: every item filed under the
\* Feed's url is shown or hidden; a url with no item yet raises KeyError,
\* which Gui.reload_feed logs.
reload_feed(its, url, enabled) ==
    IF url \in DOMAIN its
    THEN [its EXCEPT ![url] = [k \in DOMAIN @ |-> [@[k] EXCEPT !.shown = enabled]]]
    ELSE its

\* Controller.edit_feed(feed, display, enabled), from the dialog of a Feed
\* the library shows.
EditFeed(f, display, enabled) ==
    /\ run = "exec"
    /\ nEdit < MaxEdit
    /\ f \in Range(feed_list)
    /\ nEdit' = nEdit + 1
    /\ feeds' = [feeds EXCEPT ![f].display = display, ![f].enabled = enabled]
    /\ items' = IF feeds[f].enabled # enabled
                THEN reload_feed(items, feeds[f].url, enabled)
                ELSE items
    /\ UNCHANGED <<feed_list, tasks, entry_queue, nAdd, addRet>>
    /\ UNCHANGED <<cacheVars, loadVars>>
    /\ UNCHANGED <<run, view, date, calls, drain>>

\* self._feeds.remove(feed): the first occurrence leaves the list.
RECURSIVE feed_list_remove(_, _)
feed_list_remove(fl, feed) ==
    IF fl = <<>> THEN fl
    ELSE IF Head(fl) = feed THEN Tail(fl)
    ELSE <<Head(fl)>> \o feed_list_remove(Tail(fl), feed)

\* A removal that cancels what the Feed's pool has not finished.
RemoveFeed_cancel(f) ==
    /\ run = "exec"
    /\ nEdit < MaxEdit
    /\ f \in Range(feed_list)
    /\ nEdit' = nEdit + 1
    /\ feeds' = [feeds EXCEPT ![f].enabled = FALSE]
    /\ feed_list' = feed_list_remove(feed_list, f)
    /\ items' = reload_feed(items, feeds[f].url, FALSE)
    /\ tasks' = [tasks EXCEPT ![f] =
                    [j \in DOMAIN @ |->
                        IF @[j].pc \in {"done", "failed"} THEN @[j]
                        ELSE [pc |-> "cancelled", feed_entry |-> @[j].feed_entry]]]
    /\ UNCHANGED <<entry_queue, nAdd, addRet>>
    /\ UNCHANGED <<cacheVars, loadVars>>
    /\ UNCHANGED <<run, view, date, calls, drain>>

\* Controller.remove_feed(feed), from the dialog of a Feed the library shows.
RemoveFeed(f) ==
    /\ run = "exec"
    /\ nEdit < MaxEdit
    /\ f \in Range(feed_list)
    /\ nEdit' = nEdit + 1
    /\ feeds' = [feeds EXCEPT ![f].enabled = FALSE]
    /\ feed_list' = feed_list_remove(feed_list, f)
    /\ items' = reload_feed(items, feeds[f].url, FALSE)
    /\ UNCHANGED <<tasks, entry_queue, nAdd, addRet>>
    /\ UNCHANGED <<cacheVars, loadVars>>
    /\ UNCHANGED <<run, view, date, calls, drain>>

\* FeedList.entries, what the loop takes of one Feed of any kind.
feed_entries_always(feed) == feed.entries

\* FeedList.entries, what the loop takes of one Feed: its entries when it
\* is enabled.
feed_entries_if_enabled(feed) == IF feed.enabled THEN feed.entries ELSE <<>>

\* FeedList.entries: the loop over self._feeds extending a new list.
RECURSIVE feed_list_entries(_, _)
feed_list_entries(fl, fs) ==
    IF fl = <<>> THEN <<>>
    ELSE feed_entries_if_enabled(fs[Head(fl)]) \o feed_list_entries(Tail(fl), fs)

\* A frontend reads feed_list.entries.
ReadEntries ==
    /\ view' = feed_list_entries(feed_list, feeds)
    /\ UNCHANGED <<cacheVars, feedVars, loadVars>>
    /\ UNCHANGED <<run, nEdit, date, calls, drain>>

\* A session: the downloads the load started, the drain, and the user
\* editing and removing Feeds.
NextRun ==
    \/ StartRun
    \/ Worker
    \/ UpdateEntries
    \/ \E f \in DOMAIN feeds : \E display \in Displays : \E enabled \in BOOLEAN :
          EditFeed(f, display, enabled)
    \/ \E f \in DOMAIN feeds : RemoveFeed(f)

SpecRun == InitRun /\ [][NextRun]_vars

\* __main__ calls run() right after Controller(), the timer fires every 20 ms
\* while exec_() runs, and the pools' threads are scheduled.
FairSpecRun ==
    SpecRun /\ WF_vars(StartRun) /\ WF_vars(Worker) /\ WF_vars(UpdateEntries)

\* The session with a frontend that reads the aggregate view at any time.
NextView ==
    \/ NextRun
    \/ ReadEntries

SpecView == InitRun /\ [][NextView]_vars

\* ------------------------------------------------------- image failures
\* Feed.__init__ whose icon download returned None.
icon_failed(feed) == [feed EXCEPT !.icon = NoImage]

\* Controller() as in InitRun, the icon download of any of the Feeds loaded
\* having failed.
InitImage ==
    /\ cache_file \in StartCaches
    /\ heap = init_heap(cache_file)
    /\ cache_entries = init_entries(cache_file)
    /\ cache_used = EmptyMap
    /\ IdleCacheCalls
    /\ data_file \in StartFiles
    /\ LET st == load_feeds(data_file, [fs |-> <<>>, fl |-> <<>>, ts |-> <<>>])
       IN  /\ \E S \in SUBSET DOMAIN st.fs :
                 feeds = [f \in DOMAIN st.fs |->
                             IF f \in S THEN icon_failed(st.fs[f]) ELSE st.fs[f]]
           /\ feed_list = st.fl
           /\ tasks = st.ts
    /\ entry_queue = <<>>
    /\ items = EmptyMap
    /\ nAdd = 0
    /\ addRet = [url |-> "", feed |-> StaleFeed]
    /\ loaded = TRUE
    /\ run = "init"
    /\ IdleCtl

\* A top-image failure that raises once the Entry is built.
TaskFetchNoImage_raises(f, i) ==
    /\ tasks[f][i].pc = "fetch"
    /\ heap' = heap @@ (EntryId(f, i) :> Entry(f, TaskLink(f, i), NoImage,
                                             feeds[f].icon, raw_date(feeds[f].url, i)))
    /\ SetTask(f, i, "failed", NoEntry)
    /\ UNCHANGED <<cache_entries, cache_used, cache_file, call, hits>>
    /\ UNCHANGED <<feeds, feed_list, entry_queue, items, nAdd, addRet>>
    /\ UNCHANGED <<loadVars, ctlVars>>

\* download_entry: the article is downloaded and parsed, the download of its
\* top image returns None; feed_entry = Entry(self, article, entry_data, ...)
TaskFetchNoImage(f, i) ==
    /\ tasks[f][i].pc = "fetch"
    /\ heap' = heap @@ (EntryId(f, i) :> Entry(f, TaskLink(f, i), NoImage,
                                             feeds[f].icon, raw_date(feeds[f].url, i)))
    /\ SetTask(f, i, "put", EntryId(f, i))
    /\ UNCHANGED <<cache_entries, cache_used, cache_file, call, hits>>
    /\ UNCHANGED <<feeds, feed_list, entry_queue, items, nAdd, addRet>>
    /\ UNCHANGED <<loadVars, ctlVars>>

\* One step of a task, image downloads failing or not.
WorkerImage ==
    \/ Worker
    \/ \E f \in DOMAIN tasks : \E i \in DOMAIN tasks[f] : TaskFetchNoImage(f, i)

\* A session the user leaves alone: the downloads the load started, and the
\* drain.
NextDownload ==
    \/ StartRun
    \/ WorkerImage
    \/ UpdateEntries

SpecDownload == InitImage /\ [][NextDownload]_vars

\* __main__ calls run() right after Controller(), the timer fires every 20 ms
\* while exec_() runs, the pools' threads are scheduled and each request
\* returns.
FairSpecDownload ==
    SpecDownload /\ WF_vars(StartRun) /\ WF_vars(WorkerImage) /\ WF_vars(UpdateEntries)

\* ------------------------------------------------------------- shutdown
\* run(): exec_() returned and self._feed_list.save(self.data_path) wrote the
\* file.
ExitSaveListOk ==
    /\ run = "exec"
    /\ run' = "list_saved"
    /\ data_file' = save_list_file(feed_list, feeds)
    /\ UNCHANGED <<cacheVars, feedVars, loaded>>
    /\ UNCHANGED <<nEdit, view, date, calls, drain>>

\* A FeedList.save that logs the OSError and returns.
ExitSaveListFail_swallowed ==
    /\ run = "exec"
    /\ run' = "list_saved"
    /\ data_file' \in save_list_failed_files(data_file)
    /\ UNCHANGED <<cacheVars, feedVars, loaded>>
    /\ UNCHANGED <<nEdit, view, date, calls, drain>>

\* run(): exec_() returned and FeedList.save logged an OSError and raised it
\* again; nothing of run() catches it.
ExitSaveListFail ==
    /\ run = "exec"
    /\ run' = "raised"
    /\ data_file' \in save_list_failed_files(data_file)
    /\ UNCHANGED <<cacheVars, feedVars, loaded>>
    /\ UNCHANGED <<nEdit, view, date, calls, drain>>

\* run(): self._cache.save() wrote the cache file; run() returns.
ExitSaveCacheOk ==
    /\ run = "list_saved"
    /\ run' = "exited"
    /\ call' = Called("save", "", NoEntry, NoEntry, TRUE)
    /\ cache_file' = save_file(cache_entries, cache_used, heap)
    /\ UNCHANGED <<heap, cache_entries, cache_used, hits>>
    /\ UNCHANGED <<feedVars, loadVars>>
    /\ UNCHANGED <<nEdit, view, date, calls, drain>>

\* run(): self._cache.save() logged an exception; run() returns.
ExitSaveCacheFail ==
    /\ run = "list_saved"
    /\ run' = "exited"
    /\ call' = Called("save", "", NoEntry, NoEntry, FALSE)
    /\ cache_file' \in save_failed_files(cache_file)
    /\ UNCHANGED <<heap, cache_entries, cache_used, hits>>
    /\ UNCHANGED <<feedVars, loadVars>>
    /\ UNCHANGED <<nEdit, view, date, calls, drain>>

\* The process is gone and the application is started again: Controller()
\* reads the two files the last session left.
Restart ==
    /\ run \in {"raised", "exited"}
    /\ run' = "init"
    /\ heap' = init_heap(cache_file)
    /\ cache_entries' = init_entries(cache_file)
    /\ cache_used' = EmptyMap
    /\ call' = [NoCall EXCEPT !.op = "init"] @@ [prev |-> [op |-> "none", link |-> "", entry |-> NoEntry]]
    /\ hits' = EmptyMap
    /\ LET st == load_feeds(data_file, [fs |-> <<>>, fl |-> <<>>, ts |-> <<>>])
       IN  /\ feeds' = st.fs
           /\ feed_list' = st.fl
           /\ tasks' = st.ts
    /\ entry_queue' = <<>>
    /\ items' = EmptyMap
    /\ UNCHANGED <<cache_file, nAdd, addRet, loadVars>>
    /\ UNCHANGED <<nEdit, view, date, calls, drain>>

\* A session in which no download thread gets to run before the exit.
NextExit ==
    \/ StartRun
    \/ \E f \in DOMAIN feeds : \E display \in Displays : \E enabled \in BOOLEAN :
          EditFeed(f, display, enabled)
    \/ \E f \in DOMAIN feeds : RemoveFeed(f)
    \/ ExitSaveListOk
    \/ ExitSaveListFail
    \/ ExitSaveCacheOk
    \/ ExitSaveCacheFail
    \/ Restart

SpecExit == InitRun /\ [][NextExit]_vars

\* run() goes straight on from the feed-list save to the cache save.
FairSpecExit == SpecExit /\ WF_vars(ExitSaveCacheOk \/ ExitSaveCacheFail)

\* -------------------------------------------- claims on the feed-list file
\* C11 (feed-list round trip), as claimed: the FeedList a fresh Controller
\* loaded from the file a save wrote holds, record by record, the url, the
\* display and the enabled flag that were saved, in the same order.
C11_RoundTrip ==
    (run = "init" /\ data_file.readable) =>
        save_records(feed_list, feeds) = data_file.records

\* A fresh Controller has loaded a file saved with an empty display.
C11_Case ==
    /\ run = "init" /\ data_file.readable
    /\ \E k \in DOMAIN data_file.records : data_file.records[k].display = ""

\* What does survive the round trip: the urls and the enabled flags, and
\* every display that is not empty.
C11_RoundTripNamed ==
    (run = "init" /\ data_file.readable) =>
        /\ Len(feed_list) = Len(data_file.records)
        /\ \A k \in DOMAIN feed_list :
              /\ feeds[feed_list[k]].url = data_file.records[k].url
              /\ feeds[feed_list[k]].enabled = data_file.records[k].enabled
              /\ data_file.records[k].display # "" =>
                    feeds[feed_list[k]].display = data_file.records[k].display

\* ------------------------------------------ relative dates, one by one
\* No Controller, no cache file.
InitDate ==
    /\ cache_file = [readable |-> FALSE, data |-> EmptyMap]
    /\ heap = init_heap(cache_file)
    /\ cache_entries = init_entries(cache_file)
    /\ cache_used = EmptyMap
    /\ IdleCacheCalls
    /\ IdleFeeds
    /\ IdleLoad

\* An Entry is constructed whose timestamp lies days and seconds back.
ConstructDate(days, seconds) ==
    /\ date' = [days |-> days, seconds |-> seconds,
                text |-> construct_date(days, seconds)]
    /\ UNCHANGED <<cacheVars, feedVars, loadVars>>
    /\ UNCHANGED <<run, nEdit, view, calls, drain>>

NextDate == \E days \in 0..MaxDays : \E seconds \in SampleSeconds : ConstructDate(days, seconds)

SpecDate == InitDate /\ [][NextDate]_vars

\* ------------------------------------- concurrent calls on the cache
\* Threads that call the cache: a worker of one Feed and a worker of another.
Threads == {1, 2}

\* A thread that is in no call and has made none.
IdleCall ==
    [op |-> "none", link |-> "", arg |-> NoEntry, pc |-> "idle",
     entry |-> NoEntry, ret |-> NoEntry, marked |-> NoEntry, seen |-> {}]

\* EntryCache() in a process whose threads hold the TestEntries.
InitConc ==
    /\ cache_file \in StartCaches
    /\ heap = TestEntries @@ init_heap(cache_file)
    /\ cache_entries = init_entries(cache_file)
    /\ cache_used = EmptyMap
    /\ IdleCacheCalls
    /\ IdleFeeds
    /\ data_file = [readable |-> FALSE, records |-> <<>>]
    /\ loaded = FALSE
    /\ run = "none"
    /\ nEdit = 0
    /\ view = <<>>
    /\ date = NoDate
    /\ calls = [t \in Threads |-> IdleCall]
    /\ drain = NoDrain

\* Thread t calls cache.get(link). seen collects what the store holds under
\* the link from here to the return.
CallGet(t, link) ==
    /\ calls[t].pc \in {"idle", "returned"}
    /\ calls' = [calls EXCEPT ![t] =
                    [op |-> "get", link |-> link, arg |-> NoEntry, pc |-> "read",
                     entry |-> NoEntry, ret |-> NoEntry, marked |-> NoEntry,
                     seen |-> {get_return(cache_entries, link)}]]
    /\ UNCHANGED <<cacheVars, feedVars, loadVars>>
    /\ UNCHANGED <<run, nEdit, view, date, drain>>

\* get: entry = self.entries[link]; a KeyError returns None.
GetRead(t) ==
    /\ calls[t].pc = "read"
    /\ calls' = [calls EXCEPT ![t] =
                    IF calls[t].link \in DOMAIN cache_entries
                    THEN [@ EXCEPT !.entry = cache_entries[calls[t].link], !.pc = "mark"]
                    ELSE [@ EXCEPT !.ret = NoEntry, !.pc = "returned"]]
    /\ UNCHANGED <<cacheVars, feedVars, loadVars>>
    /\ UNCHANGED <<run, nEdit, view, date, drain>>

\* A get that looks the link up again for what it records.
get_mark_reread(entries, link, entry) == entries[link]

\* get: self.used[link] = entry, the value recorded.
get_mark(entries, link, entry) == entry

\* get: self.used[link] = entry; return entry
GetMark(t) ==
    /\ calls[t].pc = "mark"
    /\ LET value == get_mark(cache_entries, calls[t].link, calls[t].entry) IN
         /\ cache_used' = DictSet(cache_used, calls[t].link, value)
         /\ calls' = [calls EXCEPT ![t] =
                         [@ EXCEPT !.marked = value, !.ret = calls[t].entry,
                                   !.pc = "returned"]]
    /\ UNCHANGED <<heap, cache_entries, cache_file, call, hits>>
    /\ UNCHANGED <<feedVars, loadVars>>
    /\ UNCHANGED <<run, nEdit, view, date, drain>>

\* Thread t calls cache.put(link, entry).
CallPut(t, link, entry) ==
    /\ calls[t].pc \in {"idle", "returned"}
    /\ calls' = [calls EXCEPT ![t] =
                    [op |-> "put", link |-> link, arg |-> entry, pc |-> "store",
                     entry |-> NoEntry, ret |-> NoEntry, marked |-> NoEntry,
                     seen |-> {}]]
    /\ UNCHANGED <<cacheVars, feedVars, loadVars>>
    /\ UNCHANGED <<run, nEdit, view, date, drain>>

\* put: self.entries[link] = entry; the gets in flight on the link see it.
PutStore(t) ==
    /\ calls[t].pc = "store"
    /\ cache_entries' = put_entries(cache_entries, calls[t].link, calls[t].arg)
    /\ cache_used' = put_used(cache_used, calls[t].link, calls[t].arg)
    /\ calls' = [u \in Threads |->
                    IF u = t THEN [calls[u] EXCEPT !.pc = "returned"]
                    ELSE IF /\ calls[u].op = "get"
                            /\ calls[u].pc \in {"read", "mark"}
                            /\ calls[u].link = calls[t].link
                         THEN [calls[u] EXCEPT !.seen = @ \cup {calls[t].arg}]
                         ELSE calls[u]]
    /\ UNCHANGED <<heap, cache_file, call, hits>>
    /\ UNCHANGED <<feedVars, loadVars>>
    /\ UNCHANGED <<run, nEdit, view, date, drain>>

NextConc ==
    \/ \E t \in Threads : \E link \in Links : CallGet(t, link)
    \/ \E t \in Threads : GetRead(t)
    \/ \E t \in Threads : GetMark(t)
    \/ \E t \in Threads : \E link \in Links : \E entry \in Puttable(heap, link) :
          CallPut(t, link, entry)
    \/ \E t \in Threads : PutStore(t)

SpecConc == InitConc /\ [][NextConc]_vars

\* ------------------------------------------- update_entries, call by call
\* The timer calls Controller.update_entries while exec_() runs. What the
\* call hands to the Gui is collected from here on.
DrainCall ==
    /\ run = "exec"
    /\ drain.pc = "idle"
    /\ drain' = [pc |-> "loop", got |-> <<>>]
    /\ UNCHANGED <<cacheVars, feedVars, loadVars>>
    /\ UNCHANGED <<run, nEdit, view, date, calls>>

\* A turn that takes the Entry pushed last.
DrainTurn_lifo ==
    /\ drain.pc = "loop"
    /\ Len(entry_queue) # 0
    /\ items' = add_entry(items, entry_queue[Len(entry_queue)])
    /\ entry_queue' = SubSeq(entry_queue, 1, Len(entry_queue) - 1)
    /\ drain' = [drain EXCEPT !.got = Append(@, entry_queue[Len(entry_queue)])]
    /\ UNCHANGED cacheVars
    /\ UNCHANGED <<feeds, feed_list, tasks, nAdd, addRet>>
    /\ UNCHANGED <<loadVars, run, nEdit, view, date, calls>>

\* One turn of the loop: qsize() is not 0, get(block=False) takes the Entry
\* at the head of the queue and add_entry hands it to the Gui. Only this
\* thread takes from the queue, so the get finds what qsize() counted.
DrainTurn ==
    /\ drain.pc = "loop"
    /\ Len(entry_queue) # 0
    /\ items' = add_entry(items, Head(entry_queue))
    /\ entry_queue' = Tail(entry_queue)
    /\ drain' = [drain EXCEPT !.got = Append(@, Head(entry_queue))]
    /\ UNCHANGED cacheVars
    /\ UNCHANGED <<feeds, feed_list, tasks, nAdd, addRet>>
    /\ UNCHANGED <<loadVars, run, nEdit, view, date, calls>>

\* qsize() is 0: the loop ends and the call returns.
DrainReturn ==
    /\ drain.pc = "loop"
    /\ Len(entry_queue) = 0
    /\ drain' = [drain EXCEPT !.pc = "idle"]
    /\ UNCHANGED <<cacheVars, feedVars, loadVars>>
    /\ UNCHANGED <<run, nEdit, view, date, calls>>

\* A session of downloads and timer calls.
NextDrain ==
    \/ StartRun
    \/ Worker
    \/ DrainCall
    \/ DrainTurn
    \/ DrainReturn

SpecDrain == InitRun /\ [][NextDrain]_vars

\* The GUI thread runs a started update_entries on; nothing is assumed of
\* the workers.
FairSpecDrain == SpecDrain /\ WF_vars(DrainTurn \/ DrainReturn)

\* ------------------------------------------------ claims on the loading
ParsesRecord(r) == Len(parse(rstrip(r.url))) > 0

\* Urls of the Feeds in the FeedList, in order.
ListedUrls == [k \in DOMAIN feed_list |-> feeds[feed_list[k]].url]

\* Urls of the records that parse, in file order.
ParsedUrls(records) ==
    LET good == SelectSeq(records, ParsesRecord)
    IN  [k \in DOMAIN good |-> rstrip(good[k].url)]

\* C1 (partial load), as claimed: after load the FeedList holds exactly the
\* records that parse, in file order, wherever the failing records stand.
C1_PartialLoad ==
    (loaded /\ data_file.readable) => ListedUrls = ParsedUrls(data_file.records)

\* What the loop does: the FeedList holds the records before the first one
\* that fails to parse.
C1_LoadsUntilFirstFailure ==
    (loaded /\ data_file.readable) =>
        /\ Len(feed_list) <= Len(data_file.records)
        /\ \A k \in DOMAIN feed_list :
              /\ ParsesRecord(data_file.records[k])
              /\ feeds[feed_list[k]].url = rstrip(data_file.records[k].url)
        /\ Len(feed_list) < Len(data_file.records) =>
              ~ParsesRecord(data_file.records[Len(feed_list) + 1])

\* A load of a file whose first record fails and whose second parses.
C1_Case ==
    /\ loaded /\ data_file.readable
    /\ Len(data_file.records) = 2
    /\ ~ParsesRecord(data_file.records[1])
    /\ ParsesRecord(data_file.records[2])

\* --------------------------------------------- claims on the pipeline
\* Tasks of Feed f at one of the places pcs.
TasksAt(f, pcs) == {i \in DOMAIN tasks[f] : tasks[f][i].pc \in pcs}

\* All workers of Feed f have finished.
Finished(f) ==
    f \in DOMAIN tasks /\ TasksAt(f, {"done", "failed"}) = DOMAIN tasks[f]

RECURSIVE CountBy(_, _)
CountBy(seq, f) ==
    IF seq = <<>> THEN 0
    ELSE (IF Head(seq).by = f THEN 1 ELSE 0) + CountBy(Tail(seq), f)

RECURSIVE CountItemsBy(_, _, _)
CountItemsBy(its, urls, f) ==
    IF urls = {} THEN 0
    ELSE LET u == CHOOSE x \in urls : TRUE
         IN  CountBy(its[u], f) + CountItemsBy(its, urls \ {u}, f)

\* Pushes workers of Feed f made: what is queued and what was drained.
PushedBy(f) == CountBy(entry_queue, f) + CountItemsBy(items, DOMAIN items, f)

\* Entry objects that are queued or were handed to the Gui.
PushedIds ==
    {entry_queue[k].id : k \in DOMAIN entry_queue} \cup
    UNION {{items[u][k].id : k \in DOMAIN items[u]} : u \in DOMAIN items}

\* C2 (completeness, no duplication): a Feed never lists or pushes more than
\* its N raw entries; once all its workers have finished without a failure it
\* lists exactly N Entries and made exactly N pushes; and every Feed comes
\* to that state and stays in it.
C2_Completeness ==
    /\ [](\A f \in DOMAIN feeds :
            /\ Len(feeds[f].entries) <= Len(feeds[f].raw)
            /\ PushedBy(f) <= Len(feeds[f].raw)
            /\ (Finished(f) /\ TasksAt(f, {"failed"}) = {}) =>
                  /\ Len(feeds[f].entries) = Len(feeds[f].raw)
                  /\ PushedBy(f) = Len(feeds[f].raw))
    /\ <>[](\A f \in DOMAIN feeds :
              /\ Finished(f)
              /\ TasksAt(f, {"failed"}) = {} =>
                    /\ Len(feeds[f].entries) = Len(feeds[f].raw)
                    /\ PushedBy(f) = Len(feeds[f].raw))

\* A Feed of two raw entries, run beside another Feed that lists the same
\* link, finished without failure.
C2_Witness ==
    /\ Len(feeds) = 2
    /\ Len(feeds[1].raw) = 2
    /\ Finished(1) /\ TasksAt(1, {"failed"}) = {}
    /\ Len(feeds[1].entries) = 2
    /\ TasksAt(2, {"get"}) = {}

\* C3 (per-entry idempotence), as claimed: once a link is in the cache no
\* further Entry object is created for it.
C3_OneEntryPerLink ==
    [][\A id \in DOMAIN heap' \ DOMAIN heap :
          heap'[id].link \notin DOMAIN cache_entries]_vars

\* C4 (used is a sub-map of the store), as claimed.
C4_UsedSubmap ==
    \A l \in DOMAIN cache_used :
        l \in DOMAIN cache_entries /\ cache_used[l] = cache_entries[l]

\* C9 (feed parse failure): an add_feed of a url that does not parse returns
\* None and changes neither the FeedList, the Feeds and their tasks, the
\* cache nor the queue; no Feed, and so no task, Entry or push, ever exists
\* for such a url.
C9_AddFeedFailure ==
    /\ [][nAdd' = nAdd + 1 =>
            /\ Len(parse(addRet'.url)) = 0 <=> addRet'.feed = StaleFeed
            /\ addRet'.feed = StaleFeed =>
                  /\ UNCHANGED <<feeds, feed_list, tasks>>
                  /\ UNCHANGED <<heap, cache_entries, cache_used, cache_file>>
                  /\ UNCHANGED <<entry_queue, items>>]_vars
    /\ [](/\ DOMAIN tasks = DOMAIN feeds
          /\ \A k \in DOMAIN feed_list : feed_list[k] \in DOMAIN feeds
          /\ \A f \in DOMAIN feeds : Len(parse(feeds[f].url)) > 0
          /\ \A id \in DOMAIN heap :
                id[1] # StaleFeed => id[1] \in DOMAIN feeds)

\* add_feed("bad") returned None while a Feed added before is downloading.
C9_Witness ==
    /\ addRet.url = "bad" /\ addRet.feed = StaleFeed
    /\ nAdd = 2
    /\ Len(feed_list) = 1
    /\ entry_queue # <<>>
    /\ TasksAt(1, {"put"}) # {}

\* C10 (per-entry failure containment): a task stops only by finishing or by
\* its own failure; a failed task leaves no Entry behind, cached, listed or
\* pushed; the Feed lists one Entry per task past its append and pushed one
\* per task done, so it ends with N - k Entries; and every task that did
\* not fail does get done, so that the Feed comes to N - k pushes.
C10_FailureContained ==
    /\ [](\A f \in DOMAIN feeds :
            /\ DOMAIN tasks[f] = DOMAIN feeds[f].raw
            /\ TasksAt(f, {"get", "reparent", "fetch", "put", "reget", "append",
                           "push", "done", "failed"}) = DOMAIN tasks[f]
            /\ Len(feeds[f].entries) = Cardinality(TasksAt(f, {"push", "done"}))
            /\ PushedBy(f) = Cardinality(TasksAt(f, {"done"}))
            /\ \A i \in TasksAt(f, {"failed"}) :
                  /\ tasks[f][i].feed_entry = NoEntry
                  /\ EntryId(f, i) \notin DOMAIN heap
                  /\ EntryId(f, i) \notin Range(cache_entries) \cup Range(cache_used)
                  /\ EntryId(f, i) \notin Range(feeds[f].entries) \cup PushedIds
            /\ Finished(f) =>
                  Len(feeds[f].entries) =
                      Len(feeds[f].raw) - Cardinality(TasksAt(f, {"failed"})))
    /\ <>[](\A f \in DOMAIN feeds :
              /\ TasksAt(f, {"done"}) = DOMAIN tasks[f] \ TasksAt(f, {"failed"})
              /\ PushedBy(f) =
                    Len(feeds[f].raw) - Cardinality(TasksAt(f, {"failed"})))

\* A Feed of two raw entries finished with one failed and the other listed
\* and pushed.
C10_Witness ==
    /\ Len(feeds) = 2
    /\ Len(feeds[1].raw) = 2
    /\ Finished(1)
    /\ Cardinality(TasksAt(1, {"failed"})) = 1
    /\ Len(feeds[1].entries) = 1
    /\ PushedBy(1) = 1

\* ------------------------------------------------- claims on the cache
\* Two Entries equal in every field but the parent back-reference.
SameFields(a, b) ==
    /\ a.link = b.link
    /\ a.title = b.title
    /\ a.html = b.html
    /\ a.top_image = b.top_image
    /\ a.icon = b.icon
    /\ a.date = b.date

\* C5 (used-only persistence): in the state a successful save() leaves, the
\* store a freshly constructed cache reads from the file has exactly the
\* links a get of the saving run returned an Entry for, each with the fields
\* of the Entry that get returned; a link only put, or only present from the
\* earlier snapshot, is absent.
C5_UsedOnlyPersistence ==
    (call.op = "save" /\ call.ok) =>
        /\ DOMAIN init_entries(cache_file) = DOMAIN hits
        /\ \A l \in DOMAIN hits :
              SameFields(init_heap(cache_file)[init_entries(cache_file)[l]],
                         heap[hits[l]])

\* A successful save of a run that read "l1", put "l2" without reading it and
\* started from a snapshot.
C5_Witness ==
    /\ call.op = "save" /\ call.ok
    /\ DOMAIN hits = {"l1"}
    /\ "l2" \in DOMAIN cache_entries
    /\ cache_entries["l2"] = EntryId(2, 1)
    /\ LoadedId("l1") \in DOMAIN heap

\* C6 (get): a hit returns the Entry stored under the link and records it in
\* used, changing no other key of used and nothing of the store; a miss
\* returns None and changes neither map.
C6_GetFrame ==
    [][call'.op = "get" =>
        LET l == call'.link IN
        IF l \in DOMAIN cache_entries
        THEN /\ call'.ret = cache_entries[l]
             /\ DOMAIN cache_used' = DOMAIN cache_used \cup {l}
             /\ cache_used'[l] = cache_entries[l]
             /\ \A k \in DOMAIN cache_used \ {l} : cache_used'[k] = cache_used[k]
             /\ cache_entries' = cache_entries
        ELSE /\ call'.ret = NoEntry
             /\ cache_entries' = cache_entries
             /\ cache_used' = cache_used]_vars

\* A hit on "l2" while "l1" is already in used and "l2" was read before as
\* another Entry.
C6_Witness ==
    /\ call.op = "get" /\ call.link = "l2" /\ call.ret = EntryId(2, 1)
    /\ call.prev.op = "put"
    /\ "l1" \in DOMAIN cache_used
    /\ cache_used["l2"] = EntryId(2, 1)

\* C7 (put): store[link] becomes the Entry, whatever was there; no other key
\* of the store changes and used does not change.
C7_PutFrame ==
    [][call'.op = "put" =>
        LET l == call'.link IN
        /\ DOMAIN cache_entries' = DOMAIN cache_entries \cup {l}
        /\ cache_entries'[l] = call'.entry
        /\ \A k \in DOMAIN cache_entries \ {l} : cache_entries'[k] = cache_entries[k]
        /\ cache_used' = cache_used]_vars

\* A put that overwrote a link already read as another Entry.
C7_Witness ==
    /\ call.op = "put" /\ call.link = "l2" /\ call.entry = EntryId(2, 1)
    /\ "l2" \in DOMAIN cache_used
    /\ cache_used["l2"] = EntryId(1, 2)
    /\ cache_entries["l2"] = EntryId(2, 1)
    /\ "l1" \in DOMAIN cache_entries

\* C8 (round trip): a get(l) that immediately follows put(l, e) returns e
\* itself, whatever the maps held before.
C8_RoundTrip ==
    (call.op = "get" /\ call.prev.op = "put" /\ call.prev.link = call.link) =>
        /\ call.ret = call.prev.entry
        /\ heap[call.ret].link = call.link

\* get("l2") right after put("l2", e) in a cache that had read "l2" as
\* another Entry before.
C8_Witness ==
    /\ call.op = "get" /\ call.prev.op = "put"
    /\ call.link = "l2" /\ call.prev.link = "l2"
    /\ call.prev.entry = EntryId(1, 2)
    /\ hits["l2"] = EntryId(1, 2)
    /\ LoadedId("l2") \in DOMAIN heap

\* --------------------------------------------- claims on the session
\* Items of seq that the push of Entry id by a worker of Feed f left.
RECURSIVE CountPush(_, _, _)
CountPush(seq, f, id) ==
    IF seq = <<>> THEN 0
    ELSE (IF Head(seq).by = f /\ Head(seq).id = id THEN 1 ELSE 0)
         + CountPush(Tail(seq), f, id)

\* Times the Gui was handed the Entry id pushed by a worker of Feed f.
RECURSIVE DeliveredIn(_, _, _, _)
DeliveredIn(its, urls, f, id) ==
    IF urls = {} THEN 0
    ELSE LET u == CHOOSE x \in urls : TRUE
         IN  CountPush(its[u], f, id) + DeliveredIn(its, urls \ {u}, f, id)

Delivered(f, id) == DeliveredIn(items, DOMAIN items, f, id)

RECURSIVE CountAllItems(_, _)
CountAllItems(its, urls) ==
    IF urls = {} THEN 0
    ELSE LET u == CHOOSE x \in urls : TRUE
         IN  Len(its[u]) + CountAllItems(its, urls \ {u})

RECURSIVE CountDone(_)
CountDone(ts) ==
    IF ts = <<>> THEN 0
    ELSE Cardinality({i \in DOMAIN Head(ts) : Head(ts)[i].pc = "done"})
         + CountDone(Tail(ts))

\* C12 (delivery exactly once): the Entry a task pushed is either still on
\* the queue or was handed to the Gui, once in all, and an Entry not pushed
\* is in neither place; the queue and the Gui hold nothing but these pushes;
\* and with run() called, the timer firing and the workers running, every
\* Entry pushed ends up handed to the Gui, the queue empty.
C12_ExactlyOnce ==
    /\ [](\A f \in DOMAIN tasks : \A i \in DOMAIN tasks[f] :
            LET id == tasks[f][i].feed_entry
                n == CountPush(entry_queue, f, id) + Delivered(f, id)
            IN  /\ Delivered(f, id) <= 1
                /\ IF tasks[f][i].pc = "done" THEN n = 1 ELSE n = 0)
    /\ [](Len(entry_queue) + CountAllItems(items, DOMAIN items) = CountDone(tasks))
    /\ <>[](/\ entry_queue = <<>>
            /\ \A f \in DOMAIN tasks : \A i \in DOMAIN tasks[f] :
                  tasks[f][i].pc = "done" => Delivered(f, tasks[f][i].feed_entry) = 1)

\* The drain has handed over an Entry while another push waits on the queue
\* and a further task is about to push.
C12_Witness ==
    /\ run = "exec"
    /\ CountAllItems(items, DOMAIN items) >= 1
    /\ Len(entry_queue) >= 1
    /\ \E f \in DOMAIN tasks : TasksAt(f, {"push"}) # {}

\* C13 (no cancellation): an edit_feed or remove_feed call returns to the
\* event loop and changes no task, no Entry list, nothing of the cache or the
\* queue; the tasks of a Feed that is disabled or off the list stay one per
\* raw entry, each on its way, done or failed by its own fetch; a done task
\* of such a Feed has its link cached and its Entry listed by the Feed and
\* pushed once; and every such Feed comes to have all its tasks done or
\* failed.
C13_NothingCancelled ==
    /\ [][nEdit' = nEdit + 1 =>
            /\ run' = "exec"
            /\ UNCHANGED <<tasks, entry_queue>>
            /\ UNCHANGED <<heap, cache_entries, cache_used, cache_file>>
            /\ DOMAIN feeds' = DOMAIN feeds
            /\ \A f \in DOMAIN feeds :
                  /\ feeds'[f].entries = feeds[f].entries
                  /\ feeds'[f].raw = feeds[f].raw]_vars
    /\ [](\A f \in DOMAIN feeds :
            (f \notin Range(feed_list) \/ ~feeds[f].enabled) =>
                /\ DOMAIN tasks[f] = DOMAIN feeds[f].raw
                /\ TasksAt(f, {"get", "reparent", "fetch", "put", "reget",
                               "append", "push", "done", "failed"}) = DOMAIN tasks[f]
                /\ \A i \in TasksAt(f, {"done"}) :
                      /\ TaskLink(f, i) \in DOMAIN cache_entries
                      /\ tasks[f][i].feed_entry \in Range(feeds[f].entries)
                      /\ CountPush(entry_queue, f, tasks[f][i].feed_entry)
                         + Delivered(f, tasks[f][i].feed_entry) = 1)
    /\ <>[](\A f \in DOMAIN feeds :
              (f \notin Range(feed_list) \/ ~feeds[f].enabled) =>
                  /\ TasksAt(f, {"done", "failed"}) = DOMAIN tasks[f]
                  /\ Len(feeds[f].entries) = Cardinality(TasksAt(f, {"done"})))

\* The Feed of "u1" was removed before one of its workers pushed: the Entry
\* on the queue was pickled with its parent disabled; both its tasks are
\* done.
C13_Witness ==
    /\ Len(feeds) = 2
    /\ 1 \notin Range(feed_list)
    /\ TasksAt(1, {"done"}) = DOMAIN tasks[1]
    /\ Len(feeds[1].entries) = 2
    /\ \E k \in DOMAIN entry_queue :
          /\ entry_queue[k].by = 1
          /\ entry_queue[k].entry.parent = 1
          /\ ~entry_queue[k].parent_enabled

\* The enabled Feeds of the list, in list order.
EnabledListed == SelectSeq(feed_list, LAMBDA f : feeds[f].enabled)

\* Entries of the first k - 1 Feeds of on.
RECURSIVE EntriesBefore(_, _)
EntriesBefore(on, k) ==
    IF k <= 1 THEN 0
    ELSE Len(feeds[on[k - 1]].entries) + EntriesBefore(on, k - 1)

HitPush(item) == item.id[1] # item.by

\* C15 (re-parenting), as claimed: the Entry a task pushes after a cache hit
\* is the cached Entry with the pushing Feed as parent and its other fields
\* as cached.
C15_Reparented ==
    \A k \in DOMAIN entry_queue :
        HitPush(entry_queue[k]) =>
            /\ entry_queue[k].entry.parent = entry_queue[k].by
            /\ SameFields(entry_queue[k].entry, heap[entry_queue[k].id])

\* A task pushed an Entry it got from the cache.
C15_Case == \E k \in DOMAIN entry_queue : HitPush(entry_queue[k])

\* What the hit path does keep: a task past its hit creates no Entry and puts
\* nothing, its step to append changes the parent of the cached Entry only,
\* and it appends and pushes the object the cache returned.
C15_HitPath ==
    [][\A f \in DOMAIN tasks : \A i \in DOMAIN tasks[f] :
          (tasks[f][i].pc = "reparent" /\ tasks'[f][i] # tasks[f][i]) =>
              /\ tasks'[f][i] = [pc |-> "append", feed_entry |-> tasks[f][i].feed_entry]
              /\ DOMAIN heap' = DOMAIN heap
              /\ heap'[tasks[f][i].feed_entry] =
                    [heap[tasks[f][i].feed_entry] EXCEPT !.parent = f]
              /\ UNCHANGED <<cache_entries, cache_used>>]_vars

\* --------------------------------------------- claims on the shutdown
\* C16 (shutdown order): leaving exec_(), run() either has the feed list
\* written, the cache file untouched so far, or is left by the OSError of
\* FeedList.save with the cache file untouched for good; the cache is saved
\* only after the feed list was, and then run() returns; and once the feed
\* list is written the cache save does follow.
C16_ShutdownOrder ==
    /\ [][(run = "exec" /\ run' # "exec") =>
            /\ UNCHANGED <<cache_file, call>>
            /\ \/ run' = "list_saved" /\ data_file' = save_list_file(feed_list, feeds)
               \/ run' = "raised" /\ data_file' \in save_list_failed_files(data_file)]_vars
    /\ [][(run = "raised" /\ run' = "raised") => UNCHANGED <<cache_file, call>>]_vars
    /\ [][(call'.op = "save" /\ call' # call) =>
            /\ run = "list_saved" /\ run' = "exited"
            /\ UNCHANGED data_file]_vars
    /\ [](run = "raised" => call.op # "save")
    /\ [](run = "exited" =>
            /\ call.op = "save"
            /\ data_file = save_list_file(feed_list, feeds))
    /\ (run = "list_saved") ~> (run = "exited")

\* FeedList.save raised at the exit of a session that had removed a Feed,
\* leaving a truncated feeds.json; the cache file is the one the session
\* started from.
C16_Witness ==
    /\ run = "raised"
    /\ ~data_file.readable
    /\ nEdit > 0
    /\ Len(feed_list) = 1 /\ Len(feeds) = 2
    /\ cache_file.readable
    /\ call.op = "init"

\* C17 (cache persistence failures): a cache constructed from a file that
\* cannot be read has an empty store and an empty used; its first get or put
\* does what a get or put does on empty maps; and a save that fails returns
\* None with the store, used and the Entries as they were.
C17_NonFatal ==
    /\ []((call.op = "init" /\ ~cache_file.readable) =>
             /\ cache_entries = EmptyMap
             /\ cache_used = EmptyMap)
    /\ []((call.prev.op = "init" /\ ~cache_file.readable /\ call.op = "get") =>
             /\ call.ret = NoEntry
             /\ cache_entries = EmptyMap
             /\ cache_used = EmptyMap)
    /\ []((call.prev.op = "init" /\ ~cache_file.readable /\ call.op = "put") =>
             /\ DOMAIN cache_entries = {call.link}
             /\ cache_entries[call.link] = call.entry
             /\ cache_used = EmptyMap)
    /\ [][(call'.op = "save" /\ ~call'.ok) =>
             /\ call'.ret = NoEntry
             /\ UNCHANGED <<heap, cache_entries, cache_used>>]_vars

\* A cache that read nothing at construction was put to and read from, and
\* its save failed leaving no readable file.
C17_Witness ==
    /\ call.op = "save" /\ ~call.ok
    /\ call.prev.op = "get"
    /\ DOMAIN heap = DOMAIN TestEntries
    /\ ~cache_file.readable
    /\ DOMAIN cache_used = {"l2"}
    /\ DOMAIN cache_entries = {"l1", "l2"}

\* --------------------------------------------- claims on image failures
\* The Entry task i of Feed f built has no top image.
NoTopImage(f, i) ==
    /\ EntryId(f, i) \in DOMAIN heap
    /\ heap[EntryId(f, i)].top_image = NoImage

\* C18 (image failures): a Feed whose icon is None is in the list with one
\* task per raw entry; a task whose Entry got no top image does not fail: it
\* holds that Entry and goes on to put, and past its put the link is
\* cached, past its append the Feed lists the Entry, once done the Entry
\* was pushed once; and every such task does get done, as do the tasks of a
\* Feed without icon that did not fail their fetch.
C18_ImageFailure ==
    /\ [](\A f \in DOMAIN feeds : feeds[f].icon = NoImage =>
            /\ f \in Range(feed_list)
            /\ f \in DOMAIN tasks
            /\ DOMAIN tasks[f] = DOMAIN feeds[f].raw
            /\ \A i \in DOMAIN tasks[f] :
                  EntryId(f, i) \in DOMAIN heap => heap[EntryId(f, i)].icon = NoImage)
    /\ [](\A f \in DOMAIN tasks : \A i \in DOMAIN tasks[f] : NoTopImage(f, i) =>
            /\ tasks[f][i].pc \in {"put", "reget", "append", "push", "done"}
            /\ tasks[f][i].feed_entry = EntryId(f, i)
            /\ tasks[f][i].pc \in {"reget", "append", "push", "done"} =>
                  TaskLink(f, i) \in DOMAIN cache_entries
            /\ tasks[f][i].pc \in {"push", "done"} =>
                  EntryId(f, i) \in Range(feeds[f].entries)
            /\ CountPush(entry_queue, f, EntryId(f, i)) + Delivered(f, EntryId(f, i))
                  = IF tasks[f][i].pc = "done" THEN 1 ELSE 0)
    /\ <>[](\A f \in DOMAIN tasks :
              /\ TasksAt(f, {"done", "failed"}) = DOMAIN tasks[f]
              /\ \A i \in DOMAIN tasks[f] : NoTopImage(f, i) => tasks[f][i].pc = "done")

\* The Feed of "u1", built without icon, has both tasks done; the Entry of
\* "l1", built without top image, was pushed and is on the queue.
C18_Witness ==
    /\ Len(feeds) = 2
    /\ feeds[1].icon = NoImage
    /\ TasksAt(1, {"done"}) = DOMAIN tasks[1]
    /\ NoTopImage(1, 1)
    /\ \E k \in DOMAIN entry_queue :
          /\ entry_queue[k].id = EntryId(1, 1)
          /\ entry_queue[k].entry.top_image = NoImage
          /\ entry_queue[k].entry.icon = NoImage

\* ------------------------------------------- claims on relative dates
\* C19 (relative date): the text is <<v, unit, "ago">> with v whole months
\* of thirty days when there is one, else the days when there is one, else
\* whole hours when there is one, else whole minutes; the unit ends in "s"
\* exactly when v > 1; 90 days read "3 months ago", 5 hours "5 hours ago",
\* 1 minute "1 minute ago".
C19_RelativeDate ==
    date # NoDate =>
        LET d == date.days
            s == date.seconds
            v == date.text[1]
            unit == date.text[2]
        IN  /\ Len(date.text) = 3
            /\ date.text[3] = "ago"
            /\ d >= 30 => /\ v * 30 <= d /\ d < (v + 1) * 30
                          /\ unit = IF v > 1 THEN "months" ELSE "month"
            /\ (d > 0 /\ d < 30) => /\ v = d
                                     /\ unit = IF v > 1 THEN "days" ELSE "day"
            /\ (d = 0 /\ s >= 3600) => /\ v * 3600 <= s /\ s < (v + 1) * 3600
                                        /\ unit = IF v > 1 THEN "hours" ELSE "hour"
            /\ (d = 0 /\ s < 3600) => /\ v * 60 <= s /\ s < (v + 1) * 60
                                       /\ unit = IF v > 1 THEN "minutes" ELSE "minute"
            /\ d = 90 => date.text = <<3, "months", "ago">>
            /\ (d = 0 /\ s = 18000) => date.text = <<5, "hours", "ago">>
            /\ (d = 0 /\ s = 60) => date.text = <<1, "minute", "ago">>

\* 90 days and some hours back.
C19_Witness ==
    /\ date.days = 90
    /\ date.seconds = 7201
    /\ date.text = <<3, "months", "ago">>

\* ------------------------------------- claims on the concurrent calls
\* C20 (per-key linearizability): the store holds under a link nothing but
\* the Entry loaded for it or an Entry put under it; a get that returned gave
\* None or an Entry, either way what the store held under its link at some
\* instant between its call and its return; and an Entry returned is the
\* value that get wrote to used, a None returned having written nothing.
C20_Linearizable ==
    /\ \A l \in DOMAIN cache_entries :
          /\ cache_entries[l] \in Puttable(heap, l)
          /\ cache_entries[l] = LoadedId(l) =>
                (cache_file.readable /\ l \in DOMAIN cache_file.data)
    /\ \A t \in Threads :
          (calls[t].op = "get" /\ calls[t].pc = "returned") =>
              /\ calls[t].ret \in calls[t].seen
              /\ calls[t].ret # NoEntry =>
                    /\ heap[calls[t].ret].link = calls[t].link
                    /\ calls[t].marked = calls[t].ret
                    /\ calls[t].link \in DOMAIN cache_used
              /\ calls[t].ret = NoEntry => calls[t].marked = NoEntry

\* A get of "l2" returned the Entry the store held when it read, while a put
\* of the other thread has replaced it before the return.
C20_Witness ==
    /\ calls[1].op = "get" /\ calls[1].pc = "returned" /\ calls[1].link = "l2"
    /\ calls[1].ret = EntryId(1, 2)
    /\ calls[1].seen = {EntryId(1, 2), EntryId(2, 1)}
    /\ cache_entries["l2"] = EntryId(2, 1)
    /\ calls[2].op = "put" /\ calls[2].pc = "returned"

\* ------------------------------------------------- claims on the drain
\* C21 (drain): pushes join the queue at its tail and a drain takes from its
\* head, so Entries come out in the order they were pushed; the Entry a turn
\* takes off the queue is the one it hands over, and nothing else leaves the
\* queue; a drain that finds the queue empty hands over nothing and returns;
\* and a started drain always returns, whatever the producers do.
C21_Drain ==
    /\ [][/\ Len(entry_queue') > Len(entry_queue) =>
                /\ Len(entry_queue') = Len(entry_queue) + 1
                /\ SubSeq(entry_queue', 1, Len(entry_queue)) = entry_queue
                /\ UNCHANGED <<drain, items>>
          /\ Len(entry_queue') < Len(entry_queue) =>
                /\ drain.pc = "loop"
                /\ entry_queue' = Tail(entry_queue)
                /\ drain'.got = Append(drain.got, Head(entry_queue))
                /\ items' = add_entry(items, Head(entry_queue))
          /\ Len(entry_queue') = Len(entry_queue) =>
                /\ UNCHANGED <<entry_queue, items>>
                /\ drain'.got # drain.got =>
                      drain.pc = "idle" /\ drain' = [pc |-> "loop", got |-> <<>>]
          /\ (drain.pc = "loop" /\ drain'.pc = "idle") =>
                entry_queue = <<>> /\ drain'.got = drain.got
          /\ (drain.pc = "loop" /\ entry_queue = <<>> /\ drain' # drain) =>
                drain' = [drain EXCEPT !.pc = "idle"]]_vars
    /\ (drain.pc = "loop") ~> (drain.pc = "idle")

\* A drain has handed over two Entries in a row while a worker has pushed a
\* third behind them.
C21_Witness ==
    /\ drain.pc = "loop"
    /\ Len(drain.got) = 2
    /\ Len(entry_queue) = 1
    /\ drain.got[1].id # drain.got[2].id

\* --------------------------------------------- claims on the entries list
\* C22 (entries list): across every step each Feed's entries list keeps its
\* old contents as a prefix of the new; when it changes, the step is the
\* append of one download_entry task of that Feed, which adds the task's
\* Entry at the end and leaves every other Feed's tasks and list, the cache,
\* the queue, the Gui's items, the feed list and the Feeds' settings alone.
C22_AppendOnly ==
    [][\A f \in DOMAIN feeds :
          /\ f \in DOMAIN feeds'
          /\ Len(feeds'[f].entries) >= Len(feeds[f].entries)
          /\ SubSeq(feeds'[f].entries, 1, Len(feeds[f].entries)) = feeds[f].entries
          /\ feeds'[f].entries # feeds[f].entries =>
                /\ \E i \in DOMAIN tasks[f] :
                      /\ tasks[f][i].pc = "append"
                      /\ tasks' = [tasks EXCEPT ![f][i].pc = "push"]
                      /\ feeds'[f].entries =
                            Append(feeds[f].entries, tasks[f][i].feed_entry)
                /\ feeds' = [feeds EXCEPT ![f].entries = feeds'[f].entries]
                /\ UNCHANGED <<cacheVars, entry_queue, items, feed_list, nEdit>>]_vars

\* Both Feeds have appended all their Entries, Feed 1 two of them, while the
\* user has edited a Feed and removed Feed 1 and the drain has handed Entries
\* to the Gui.
C22_Witness ==
    /\ Len(feeds) = 2
    /\ Len(feeds[1].entries) = 2
    /\ Len(feeds[2].entries) = 1
    /\ nEdit = 2
    /\ Len(feed_list) = 1
    /\ feed_list[1] = 2
    /\ feeds[2].enabled = FALSE
    /\ items # EmptyMap

\* ------------------------------------------ claims on the Entry's timestamp
\* Raw entry i of Feed f carries neither timestamp.
NoTimestamp(f, i) ==
    /\ published_parsed(feeds[f].url, i) = NoStamp
    /\ created_parsed(feeds[f].url, i) = NoStamp

\* C23 (timestamp): the date of every Entry a task constructed is the text
\* for the raw entry's published timestamp when it has one, else for its
\* created timestamp when it has one, else empty; a task whose raw entry has
\* neither does not fail for it: it holds its Entry and goes on to put, past
\* its put the link is cached, past its append the Feed lists the Entry, once
\* done the Entry was pushed once, with the empty date; and every such task
\* does get done.
C23_Timestamp ==
    /\ [](\A f \in DOMAIN tasks : \A i \in DOMAIN tasks[f] :
            EntryId(f, i) \in DOMAIN heap =>
                LET published == published_parsed(feeds[f].url, i)
                    created == created_parsed(feeds[f].url, i)
                IN  heap[EntryId(f, i)].date =
                        IF published # NoStamp
                        THEN construct_date(published[1], published[2])
                        ELSE IF created # NoStamp
                        THEN construct_date(created[1], created[2])
                        ELSE <<>>)
    /\ [](\A f \in DOMAIN tasks : \A i \in DOMAIN tasks[f] :
            (NoTimestamp(f, i) /\ EntryId(f, i) \in DOMAIN heap) =>
                /\ heap[EntryId(f, i)].date = <<>>
                /\ tasks[f][i].pc \in {"put", "reget", "append", "push", "done"}
                /\ tasks[f][i].feed_entry = EntryId(f, i)
                /\ tasks[f][i].pc \in {"reget", "append", "push", "done"} =>
                      TaskLink(f, i) \in DOMAIN cache_entries
                /\ tasks[f][i].pc \in {"push", "done"} =>
                      EntryId(f, i) \in Range(feeds[f].entries)
                /\ CountPush(entry_queue, f, EntryId(f, i)) + Delivered(f, EntryId(f, i))
                      = IF tasks[f][i].pc = "done" THEN 1 ELSE 0
                /\ \A k \in DOMAIN entry_queue :
                      entry_queue[k].id = EntryId(f, i) => entry_queue[k].entry.date = <<>>)
    /\ <>[](\A f \in DOMAIN tasks : \A i \in DOMAIN tasks[f] :
              (NoTimestamp(f, i) /\ EntryId(f, i) \in DOMAIN heap) =>
                  tasks[f][i].pc = "done")

\* The Feed of "u1" has made an Entry from the published timestamp of its
\* first raw entry and one from the created timestamp of its second; the
\* Feed of "u2" has made one from a raw entry without timestamp, has listed
\* it, and its push waits on the queue with the empty date.
C23_Witness ==
    /\ Len(feeds) = 2
    /\ feeds[1].url = "u1" /\ feeds[2].url = "u2"
    /\ EntryId(1, 1) \in DOMAIN heap /\ heap[EntryId(1, 1)].date = <<3, "months", "ago">>
    /\ EntryId(1, 2) \in DOMAIN heap /\ heap[EntryId(1, 2)].date = <<5, "hours", "ago">>
    /\ EntryId(2, 1) \in DOMAIN heap /\ heap[EntryId(2, 1)].date = <<>>
    /\ tasks[2][1].pc = "done"
    /\ EntryId(2, 1) \in Range(feeds[2].entries)
    /\ \E k \in DOMAIN entry_queue :
          entry_queue[k].id = EntryId(2, 1) /\ entry_queue[k].entry.date = <<>>

\* --------------------------------------- claims on the listed Entries
\* C24 (parent of a listed Entry), as claimed: every Entry in a Feed's
\* entries list has that Feed as its parent.
C24_ParentIsOwner ==
    \A f \in DOMAIN feeds : \A k \in DOMAIN feeds[f].entries :
        heap[feeds[f].entries[k]].parent = f

\* Two Feeds list the same Entry object, which one of them took from the
\* cache.
C24_Case ==
    \E f \in DOMAIN feeds : \E g \in DOMAIN feeds \ {f} :
        Range(feeds[f].entries) \cap Range(feeds[g].entries) # {}

\* Entry objects that some Feed lists.
ListedIds == UNION {Range(feeds[f].entries) : f \in DOMAIN feeds}

\* C25 (cache before publish): the link of every Entry that a Feed lists,
\* that is queued or that was handed to the Gui is a key of the cache's used
\* map and of its store, and so of the file a save at this moment writes.
C25_CachedBeforePublished ==
    \A id \in ListedIds \cup PushedIds :
        /\ heap[id].link \in DOMAIN cache_used
        /\ heap[id].link \in DOMAIN cache_entries
        /\ heap[id].link \in DOMAIN save_file(cache_entries, cache_used, heap).data

\* A Feed has listed and pushed an Entry it fetched and an Entry it took from
\* the cache.
C25_Witness ==
    \E f \in DOMAIN feeds :
        /\ EntryId(f, 1) \in Range(feeds[f].entries) \cap PushedIds
        /\ LoadedId("l2") \in Range(feeds[f].entries) \cap PushedIds
        /\ TasksAt(f, {"done"}) = DOMAIN tasks[f]

\* C26 (append before push): every Entry that is queued or was handed to the
\* Gui is in the entries list of the Feed whose worker pushed it.
C26_AppendBeforePush ==
    /\ \A k \in DOMAIN entry_queue :
          entry_queue[k].id \in Range(feeds[entry_queue[k].by].entries)
    /\ \A u \in DOMAIN items : \A k \in DOMAIN items[u] :
          items[u][k].id \in Range(feeds[items[u][k].by].entries)

\* One Entry pushed by Feed 1 was handed to the Gui and another waits on the
\* queue, while a task of the second Feed has its Entry but has not listed it.
C26_Witness ==
    /\ Len(feeds) = 2
    /\ \E k \in DOMAIN entry_queue : entry_queue[k].by = 1
    /\ \E u \in DOMAIN items : \E k \in DOMAIN items[u] : items[u][k].by = 1
    /\ tasks[2][1].pc = "append"
    /\ feeds[2].entries = <<>>

\* ------------------------------------------- claims on the filed Entries
\* C27 (filing), as claimed: every Entry handed to the Gui is filed under the
\* url of the Feed whose worker pushed it and is shown exactly when that Feed
\* is enabled.
C27_FiledUnderProducer ==
    \A u \in DOMAIN items : \A k \in DOMAIN items[u] :
        /\ feeds[items[u][k].by].url = u
        /\ items[u][k].shown = feeds[items[u][k].by].enabled

\* The drain has handed over an Entry whose producing Feed the user has
\* switched since the load.
C27_Case ==
    /\ nEdit > 0
    /\ \E u \in DOMAIN items : \E k \in DOMAIN items[u] :
          /\ items[u][k].by \in DOMAIN data_file.records
          /\ feeds[items[u][k].by].enabled # data_file.records[items[u][k].by].enabled

====
